---------------------------- MODULE Spec2Model ----------------------------
(***************************************************************************)
(* Model of Analysis/Standard_shocks/plot_standard_shocks.py: the script   *)
(* that builds the table of (folder, shock, variation, variable)           *)
(* combinations, fetches one multiplier series per row, paginates the      *)
(* variables, renders one figure per (shock label, page) and exports the   *)
(* figures as an HTML and a PDF report.                                    *)
(*                                                                         *)
(* Spec        the whole run of the script, one action per statement or    *)
(*             loop iteration, for every configuration within the bounds   *)
(* SpecChunks  the generator divide_chunks on every list and chunk size    *)
(* SpecYaxis   the function get_yaxis on every (n, facet_col_wrap, i)      *)
(***************************************************************************)
EXTENDS Integers, Sequences, FiniteSets, TLC

(***************************************************************************)
(* Bounds of the model                                                     *)
(***************************************************************************)
MaxFolders == 2     \* entries of gdx_folders_info
MaxVars == 3        \* entries of variable_labels / get_variable_functions / operators
MaxMissing == 2     \* result files absent from the file system
Horizon == 1        \* years plotted after the first one (T - (t1 - 1) in the script)
MaxLen == 4         \* length of the list handed to divide_chunks (SpecChunks)
MaxChunk == 3       \* chunk size handed to divide_chunks (SpecChunks)
MaxAxes == 6        \* y-axes of the figure handed to get_yaxis (SpecYaxis)
MaxWrap == 4        \* facet_col_wrap handed to get_yaxis (SpecYaxis)

(***************************************************************************)
(* Configuration (lines 11-52 and the two imported configuration modules)  *)
(***************************************************************************)
t1 == 2030
DA == TRUE
output_folder == "Output"
fname == "standard_shocks"
output_extension == ".png"

None == "None"

\* No exception raised; a report file not written.
NoError == [exception |-> None, row |-> 0]
NotWritten == [path |-> None, figures |-> <<>>]

\* The i-th (folder, label) pair of gdx_folders_info.
FolderInfo(i) == <<"Gdx" \o ToString(i), "Version " \o ToString(i)>>

\* (suffix, label-DA, label-EN) triples.
variations_info ==
    << <<"_blip", "Blip", "Blip">>,
       <<"_perm", "Permanent", "Permanent">> >>
shock_variation_suffixes == [k \in 1..Len(variations_info) |-> variations_info[k][1]]
shock_variation_labels_DA == [k \in 1..Len(variations_info) |-> variations_info[k][2]]
shock_variation_labels_EN == [k \in 1..Len(variations_info) |-> variations_info[k][3]]
shock_variation_labels == IF DA THEN shock_variation_labels_DA ELSE shock_variation_labels_EN

\* shocks_to_plot: names, labels and the shock-specific first plot
\* (label-DK, label-EN, getter, operator) of each shock.
shock_names == <<"G", "Oil">>
shock_labels_DA == <<"Eksport", "Eksport 1">>
shock_labels_EN == <<"Exports", "Exports 1">>
shock_labels == IF DA THEN shock_labels_DA ELSE shock_labels_EN
shock_specific_plot_info ==
    << <<"Offentligt forbrug", "Public consumption", "get_G", "pq">>,
       <<"Oliepris", "Oil price", "get_pOil", "pm">> >>

\* variables_to_plot: the generic entry at (0-based) index k.
OperatorKinds == <<"", "pq", "pm">>
GenericLabel(k) == (IF DA THEN "Variabel " ELSE "Variable ") \o ToString(k)
GenericGetter(k) == "get_var" \o ToString(k)
GenericOperator(k) == OperatorKinds[(k % 3) + 1]

yaxis_title_from_operator ==
    [op \in {"pq", "pm", ""} |->
        CASE op = "pq" -> IF DA THEN "Pct.-aendring" ELSE "Pct. change"
          [] op = "pm" -> IF DA THEN "Aendring i pct.-point" ELSE "Change in pct. points"
          [] OTHER -> ""]

\* (columns_pr_page, rows_pr_page) settings of the plot layout.
LayoutSettings == { <<1, 1>>, <<2, 1>>, <<3, 6>> }

VARIABLES
    pc,                     \* position in the script
    gdx_folders_info,       \* configured (folder, label) pairs
    files,                  \* paths of the result files that exist
    variable_labels, get_variable_functions, operators,   \* the three variable lists
    folder_i, shock_i, suffix_i, variable_index,          \* loop positions
    baseline, database,     \* the open Gdx objects
    data,                   \* the combination table (later: the page selection)
    console,                \* printed notices
    multipliers,            \* results of data.apply(get_multiplier, axis=1)
    df,                     \* the melted and joined dataframe
    columns_pr_page, rows_pr_page, indices_by_page,
    label_i, page_i,        \* plot loop positions
    figures,                \* dict figure_name -> figure, in insertion order
    images,                 \* image files written, in order
    report_figures,         \* list(figures.values())
    html, pdf,              \* the figure lists handed to the two exporters
    error,                  \* the uncaught exception, if any
    chunk_l, chunk_n, chunk_i, chunk_out,                 \* divide_chunks
    y_n, y_wrap, y_i, y_out                               \* get_yaxis

configVars == <<gdx_folders_info, files>>
listVars == <<variable_labels, get_variable_functions, operators>>
buildVars == <<folder_i, shock_i, suffix_i, variable_index, baseline, database>>
layoutVars == <<columns_pr_page, rows_pr_page, indices_by_page>>
plotVars == <<label_i, page_i, figures, images>>
exportVars == <<html, pdf>>
chunkVars == <<chunk_l, chunk_n, chunk_i, chunk_out>>
yaxisVars == <<y_n, y_wrap, y_i, y_out>>
vars == <<pc, configVars, listVars, buildVars, data, console, multipliers, df,
          layoutVars, plotVars, report_figures, exportVars, error, chunkVars,
          yaxisVars>>

(***************************************************************************)
(* Helpers                                                                 *)
(***************************************************************************)
Min(a, b) == IF a < b THEN a ELSE b

Range(s) == {s[k] : k \in 1..Len(s)}

RECURSIVE Flatten(_)
Flatten(ss) == IF ss = <<>> THEN <<>> ELSE Head(ss) \o Flatten(Tail(ss))

\* pandas' Series.unique(): the values in order of first appearance.
Unique(s) ==
    LET firsts == {k \in 1..Len(s) : \A m \in 1..(k - 1) : s[m] # s[k]}
    IN [j \in 1..Cardinality(firsts) |->
           s[CHOOSE k \in firsts : Cardinality({m \in firsts : m < k}) = j - 1]]

gdx_folders == [k \in 1..Len(gdx_folders_info) |-> gdx_folders_info[k][1]]
gdx_labels == [k \in 1..Len(gdx_folders_info) |-> gdx_folders_info[k][2]]

\* fr"{folder}\{shock}{suffix}.gdx" and fr"{folder}\baseline.gdx"
ShockPath(folder, shock, suffix) == folder \o "\\" \o shock \o suffix \o ".gdx"

BaselinePath_first(folder) == gdx_folders[1] \o "\\baseline.gdx"

BaselinePath(folder) == folder \o "\\baseline.gdx"

\* dt.Gdx(path): the database object opened from path.
Gdx(path) == [path |-> path]

shock_files_exist_this_folder(shock) ==
    \A k \in 1..Len(shock_variation_suffixes) :
        ShockPath(gdx_folders[Min(folder_i, Len(gdx_folders))], shock,
                  shock_variation_suffixes[k]) \in files

shock_files_exist(shock) ==
    \A k \in 1..Len(shock_variation_suffixes) :
        \A f \in 1..Len(gdx_folders_info) :
            ShockPath(gdx_folders_info[f][1], shock, shock_variation_suffixes[k]) \in files


(***************************************************************************)
(* Initial states                                                          *)
(***************************************************************************)
\* Every result file the configuration asks for, with nf folders configured.
AllShockFiles(nf) ==
    {ShockPath(FolderInfo(f)[1], shock_names[s], shock_variation_suffixes[k]) :
        f \in 1..nf, s \in 1..Len(shock_names), k \in 1..Len(shock_variation_suffixes)}

ChunksIdle ==
    /\ chunk_l = <<>>
    /\ chunk_n = 1
    /\ chunk_i = 0
    /\ chunk_out = <<>>

YaxisIdle ==
    /\ y_n = 1
    /\ y_wrap = 1
    /\ y_i = 0
    /\ y_out = [raised |-> None, raw |-> 0, position |-> 0]

\* The run before line 70: configuration read, nothing built.
ScriptStart(nf, nv, present) ==
    /\ gdx_folders_info = [i \in 1..nf |-> FolderInfo(i)]
    /\ files = present
    /\ variable_labels = [k \in 1..nv |-> GenericLabel(k - 1)]
    /\ get_variable_functions = [k \in 1..nv |-> GenericGetter(k - 1)]
    /\ operators = [k \in 1..nv |-> GenericOperator(k - 1)]
    /\ folder_i = 1
    /\ shock_i = 1
    /\ suffix_i = 1
    /\ variable_index = 0
    /\ baseline = Gdx(None)
    /\ database = Gdx(None)
    /\ data = <<>>
    /\ console = <<>>
    /\ multipliers = <<>>
    /\ df = <<>>
    /\ columns_pr_page = 0
    /\ rows_pr_page = 0
    /\ indices_by_page = <<>>
    /\ label_i = 1
    /\ page_i = 1
    /\ figures = <<>>
    /\ images = <<>>
    /\ report_figures = <<>>
    /\ html = NotWritten
    /\ pdf = NotWritten
    /\ error = NoError

Init ==
    /\ pc = "folder_loop"
    /\ \E nf \in 1..MaxFolders, nv \in 1..MaxVars :
        \E missing \in SUBSET AllShockFiles(nf) :
            /\ Cardinality(missing) <= MaxMissing
            /\ ScriptStart(nf, nv, AllShockFiles(nf) \ missing)
    /\ ChunksIdle
    /\ YaxisIdle

(***************************************************************************)
(* Lines 70-106: the combination table                                     *)
(***************************************************************************)
\* zip(variable_labels, get_variable_functions, operators) stops at the shortest.
ZipLen == Min(Len(variable_labels), Min(Len(get_variable_functions), Len(operators)))

\* Line 73: the next folder's baseline is opened.
OpenBaseline ==
    /\ pc = "folder_loop"
    /\ folder_i <= Len(gdx_folders_info)
    /\ baseline' = Gdx(BaselinePath(gdx_folders_info[folder_i][1]))
    /\ shock_i' = 1
    /\ pc' = "shock_loop"
    /\ UNCHANGED <<configVars, listVars, folder_i, suffix_i, variable_index, database,
                   data, console, multipliers, df, layoutVars, plotVars,
                   report_figures, exportVars, error, chunkVars, yaxisVars>>

\* Lines 75-77 with break in place of continue.
SkipShock_break ==
    /\ pc = "shock_loop"
    /\ shock_i <= Len(shock_names)
    /\ ~shock_files_exist(shock_names[shock_i])
    /\ console' = Append(console, shock_names[shock_i])
    /\ folder_i' = folder_i + 1
    /\ pc' = "folder_loop"
    /\ UNCHANGED <<configVars, listVars, shock_i, suffix_i, variable_index, baseline,
                   database, data, multipliers, df, layoutVars, plotVars,
                   report_figures, exportVars, error, chunkVars, yaxisVars>>

\* Lines 75-77: a shock with a missing file is announced and passed over.
SkipShock ==
    /\ pc = "shock_loop"
    /\ shock_i <= Len(shock_names)
    /\ ~shock_files_exist(shock_names[shock_i])
    /\ console' = Append(console, shock_names[shock_i])
    /\ shock_i' = shock_i + 1
    /\ UNCHANGED <<pc, configVars, listVars, folder_i, suffix_i, variable_index, baseline,
                   database, data, multipliers, df, layoutVars, plotVars,
                   report_figures, exportVars, error, chunkVars, yaxisVars>>

\* The override forgotten: the list is left as it was.
ReplaceFirst_none(list, value) == list

\* list[0] = value
ReplaceFirst(list, value) == [list EXCEPT ![1] = value]

\* Lines 79-83: the first plot is replaced by the shock-specific plot.
OverrideFirstPlot ==
    /\ pc = "shock_loop"
    /\ shock_i <= Len(shock_names)
    /\ shock_files_exist(shock_names[shock_i])
    /\ LET shock_specific_plot == shock_specific_plot_info[shock_i]
           variable_label_DK == shock_specific_plot[1]
           variable_label_EN == shock_specific_plot[2]
           getter == shock_specific_plot[3]
           operator == shock_specific_plot[4]
       IN /\ variable_labels' =
                ReplaceFirst(variable_labels,
                             IF DA THEN variable_label_DK ELSE variable_label_EN)
          /\ get_variable_functions' = ReplaceFirst(get_variable_functions, getter)
          /\ operators' = ReplaceFirst(operators, operator)
    /\ suffix_i' = 1
    /\ pc' = "suffix_loop"
    /\ UNCHANGED <<configVars, folder_i, shock_i, variable_index, baseline, database,
                   data, console, multipliers, df, layoutVars, plotVars,
                   report_figures, exportVars, error, chunkVars, yaxisVars>>

\* Line 74 exhausted: on to the next folder.
NextFolder ==
    /\ pc = "shock_loop"
    /\ shock_i > Len(shock_names)
    /\ folder_i' = folder_i + 1
    /\ pc' = "folder_loop"
    /\ UNCHANGED <<configVars, listVars, shock_i, suffix_i, variable_index, baseline,
                   database, data, console, multipliers, df, layoutVars, plotVars,
                   report_figures, exportVars, error, chunkVars, yaxisVars>>

\* Line 86: the result file of the next variation is opened.
OpenDatabase ==
    /\ pc = "suffix_loop"
    /\ suffix_i <= Len(shock_variation_suffixes)
    /\ database' = Gdx(ShockPath(gdx_folders_info[folder_i][1], shock_names[shock_i],
                                 shock_variation_suffixes[suffix_i]))
    /\ variable_index' = 0
    /\ pc' = "variable_loop"
    /\ UNCHANGED <<configVars, listVars, folder_i, shock_i, suffix_i, baseline,
                   data, console, multipliers, df, layoutVars, plotVars,
                   report_figures, exportVars, error, chunkVars, yaxisVars>>

\* Line 85 exhausted: on to the next shock.
NextShock ==
    /\ pc = "suffix_loop"
    /\ suffix_i > Len(shock_variation_suffixes)
    /\ shock_i' = shock_i + 1
    /\ pc' = "shock_loop"
    /\ UNCHANGED <<configVars, listVars, folder_i, suffix_i, variable_index, baseline,
                   database, data, console, multipliers, df, layoutVars, plotVars,
                   report_figures, exportVars, error, chunkVars, yaxisVars>>

\* Lines 92-105: the row of the current folder, shock, variation and variable.
NewRow ==
    [variable_index |-> variable_index,
     folder |-> gdx_folders_info[folder_i][1],
     folder_label |-> gdx_folders_info[folder_i][2],
     shock_name |-> shock_names[shock_i],
     shock_label |-> shock_labels[shock_i],
     variation |-> shock_variation_suffixes[suffix_i],
     variation_label |-> shock_variation_labels[suffix_i],
     database |-> <<database>>,
     baseline |-> <<baseline>>,
     getter |-> get_variable_functions[variable_index + 1],
     variable_label |-> variable_labels[variable_index + 1],
     operator |-> operators[variable_index + 1]]

\* Lines 87-105: one iteration of the variable loop.
AppendRow ==
    /\ pc = "variable_loop"
    /\ variable_index < ZipLen
    /\ data' = Append(data, NewRow)
    /\ variable_index' = variable_index + 1
    /\ UNCHANGED <<pc, configVars, listVars, folder_i, shock_i, suffix_i, baseline,
                   database, console, multipliers, df, layoutVars, plotVars,
                   report_figures, exportVars, error, chunkVars, yaxisVars>>

\* Line 87 exhausted: on to the next variation.
NextVariation ==
    /\ pc = "variable_loop"
    /\ variable_index >= ZipLen
    /\ suffix_i' = suffix_i + 1
    /\ pc' = "suffix_loop"
    /\ UNCHANGED <<configVars, listVars, folder_i, shock_i, variable_index, baseline,
                   database, data, console, multipliers, df, layoutVars, plotVars,
                   report_figures, exportVars, error, chunkVars, yaxisVars>>

\* Line 106: the list of rows becomes the dataframe data.
MakeDataFrame ==
    /\ pc = "folder_loop"
    /\ folder_i > Len(gdx_folders_info)
    /\ pc' = "apply"
    /\ UNCHANGED <<configVars, listVars, buildVars, data, console, multipliers, df,
                   layoutVars, plotVars, report_figures, exportVars, error,
                   chunkVars, yaxisVars>>


(***************************************************************************)
(* Lines 108-118: one multiplier series per row, melted and joined         *)
(***************************************************************************)
\* The years dt.time(t1 - 1, T) selects.
Years == [y \in 1..(Horizon + 1) |-> t1 - 2 + y]

\* Lines 108-110: dt.DataFrame(row.database, row.operator, row.getter,
\* baselines=row.baseline).squeeze(), the series it computes.
get_multiplier(row) ==
    [databases |-> row.database,
     operator |-> row.operator,
     getter |-> row.getter,
     baselines |-> row.baseline]

\* Line 115: get_multiplier returns for the next row.
ApplyRow ==
    /\ pc = "apply"
    /\ Len(multipliers) < Len(data)
    /\ multipliers' = Append(multipliers, get_multiplier(data[Len(multipliers) + 1]))
    /\ UNCHANGED <<pc, configVars, listVars, buildVars, data, console, df, layoutVars,
                   plotVars, report_figures, exportVars, error, chunkVars, yaxisVars>>

\* The failing row passed over and the run carried on.
ApplyRaise_skip ==
    /\ pc = "apply"
    /\ Len(multipliers) < Len(data)
    /\ error' = [exception |-> "get_multiplier", row |-> Len(multipliers) + 1]
    /\ multipliers' = Append(multipliers, get_multiplier(data[Len(multipliers) + 1]))
    /\ UNCHANGED <<pc, configVars, listVars, buildVars, data, console, df, layoutVars,
                   plotVars, report_figures, exportVars, chunkVars, yaxisVars>>

\* Line 115: the library raises for the next row; nothing catches it.
ApplyRaise ==
    /\ pc = "apply"
    /\ Len(multipliers) < Len(data)
    /\ error' = [exception |-> "get_multiplier", row |-> Len(multipliers) + 1]
    /\ pc' = "aborted"
    /\ UNCHANGED <<configVars, listVars, buildVars, data, console, multipliers, df,
                   layoutVars, plotVars, report_figures, exportVars, chunkVars,
                   yaxisVars>>

\* melt(ignore_index=False).join(data): one record per (year, row), year by year.
MeltJoin(series, table) ==
    Flatten([y \in 1..Len(Years) |->
                [k \in 1..Len(table) |->
                    [index |-> k - 1, t |-> Years[y],
                     value |-> [series |-> series[k], t |-> Years[y]]] @@ table[k]]])

\* Lines 114-118: every row fetched; df is assembled.
Melt ==
    /\ pc = "apply"
    /\ Len(multipliers) = Len(data)
    /\ df' = MeltJoin(multipliers, data)
    /\ pc' = "layout"
    /\ UNCHANGED <<configVars, listVars, buildVars, data, console, multipliers,
                   layoutVars, plotVars, report_figures, exportVars, error,
                   chunkVars, yaxisVars>>

(***************************************************************************)
(* Lines 120-136: layout settings and pagination                           *)
(***************************************************************************)
\* l[a:b] for 0 <= a <= b, with 0-based positions.
Slice_short(l, a, b) == SubSeq(l, a + 1, Min(b, Len(l)) - 1)

Slice(l, a, b) == SubSeq(l, a + 1, Min(b, Len(l)))

\* The chunks the generator yields from position i on.
RECURSIVE DivideFrom(_, _, _)
DivideFrom(l, n, i) ==
    IF i >= Len(l) THEN <<>>
    ELSE <<Slice(l, i, i + n)>> \o DivideFrom(l, n, i + n)

\* Lines 132-135: list(divide_chunks(l, n)).
divide_chunks(l, n) == DivideFrom(l, n, 0)

\* frame[column] as a list.
Column(frame, column) == [k \in 1..Len(frame) |-> frame[k][column]]

\* Lines 121-136 on a dataframe with rows.
Paginate ==
    /\ pc = "layout"
    /\ df # <<>>
    /\ \E setting \in LayoutSettings :
        /\ columns_pr_page' = setting[1]
        /\ rows_pr_page' = setting[2]
        /\ indices_by_page' =
              divide_chunks(Unique(Column(df, "variable_index")), setting[1] * setting[2])
    /\ label_i' = 1
    /\ page_i' = 1
    /\ pc' = "plot"
    /\ UNCHANGED <<configVars, listVars, buildVars, data, console, multipliers, df,
                   figures, images, report_figures, exportVars, error, chunkVars,
                   yaxisVars>>

\* Lines 121-136 when every shock was skipped: the table has no row and no column.
\* Whether df.variable_index then raises is the dataframe library's, not the
\* script's, doing: both outcomes are kept.
PaginateEmpty ==
    /\ pc = "layout"
    /\ df = <<>>
    /\ \E setting \in LayoutSettings :
        /\ columns_pr_page' = setting[1]
        /\ rows_pr_page' = setting[2]
    /\ \/ /\ indices_by_page' = divide_chunks(<<>>, columns_pr_page' * rows_pr_page')
          /\ pc' = "plot"
          /\ error' = error
       \/ /\ indices_by_page' = indices_by_page
          /\ pc' = "aborted"
          /\ error' = [exception |-> "AttributeError", row |-> 0]
    /\ label_i' = 1
    /\ page_i' = 1
    /\ UNCHANGED <<configVars, listVars, buildVars, data, console, multipliers, df,
                   figures, images, report_figures, exportVars, chunkVars, yaxisVars>>


(***************************************************************************)
(* Lines 138-146: get_yaxis                                                *)
(***************************************************************************)
\* The index list with the column offset added instead of subtracted.
get_yaxis_idx_sign(n, facet_col_wrap) ==
    LET n_cols == Min(facet_col_wrap, n)
        n_rows == n \div n_cols
    IN Flatten([r \in 1..n_rows |->
                   [c \in 1..n_cols |-> n - ((1 + (r - 1)) * n_cols + (c - 1))]])

\* Lines 141-145: idx, flattened, for a figure with n y-axes.
get_yaxis_idx(n, facet_col_wrap) ==
    LET n_cols == Min(facet_col_wrap, n)
        n_rows == n \div n_cols
    IN Flatten([r \in 1..n_rows |->
                   [c \in 1..n_cols |-> n - ((1 + (r - 1)) * n_cols - (c - 1))]])

\* some_list[j] for a list of the given length: the position read (negative
\* indices count from the end), or IndexError raised.
ListIndex(length, j) ==
    IF 0 <= j /\ j < length THEN [raised |-> None, at |-> j]
    ELSE IF j < 0 /\ -length <= j THEN [raised |-> None, at |-> length + j]
    ELSE [raised |-> "IndexError", at |-> 0]

\* Lines 138-146: yaxes[idx[i]] for a figure with n y-axes; position is the
\* y-axis returned, raw the index idx[i] it was read with.
get_yaxis(n, i, facet_col_wrap) ==
    LET idx == get_yaxis_idx(n, facet_col_wrap)
        entry == ListIndex(Len(idx), i)
    IN IF entry.raised # None
       THEN [raised |-> "IndexError", raw |-> 0, position |-> 0]
       ELSE LET axis == ListIndex(n, idx[entry.at + 1])
            IN [raised |-> axis.raised, raw |-> idx[entry.at + 1], position |-> axis.at]

(***************************************************************************)
(* Lines 148-198: the plot loop                                            *)
(***************************************************************************)
height_in_cm == 26
width_in_cm == 18

\* The name without the page number.
figure_name_no_page(shock_label, page_number) == shock_label

\* Line 196: f"{shock_label} {page_number}"
figure_name(shock_label, page_number) == shock_label \o " " \o ToString(page_number)

\* Always dashed by folder.
line_dash_always(n_folders) == "folder_label"

\* Line 159: the line_dash argument.
line_dash(n_folders) == IF n_folders > 1 THEN "folder_label" ELSE None

\* d[key] = value on a dict kept as (key, value) pairs in insertion order.
DictSet(d, key, value) ==
    IF \E k \in 1..Len(d) : d[k][1] = key
    THEN [k \in 1..Len(d) |-> IF d[k][1] = key THEN <<key, value>> ELSE d[k]]
    ELSE Append(d, <<key, value>>)

\* The values most recently inserted first.
DictValues_reversed(d) == [k \in 1..Len(d) |-> d[Len(d) + 1 - k][2]]

\* list(d.values())
DictValues(d) == [k \in 1..Len(d) |-> d[k][2]]

\* Line 153: the rows of df of one shock label and one page of variables.
PageData(shock_label, variable_indices) ==
    SelectSeq(df, LAMBDA r : /\ r.shock_label = shock_label
                             /\ r.variable_index \in Range(variable_indices))

\* Line 188: data.operator[~data.variable_index.duplicated()]
FirstOperators(d) ==
    LET firsts == {k \in 1..Len(d) :
                      \A m \in 1..(k - 1) : d[m].variable_index # d[k].variable_index}
    IN [j \in 1..Cardinality(firsts) |->
           d[CHOOSE k \in firsts : Cardinality({m \in firsts : m < k}) = j - 1].operator]

\* The y-axes of a faceted figure: the charting library lays the facets out on
\* a full grid of rows of min(facet_col_wrap, facets) columns.
select_yaxes(n_facets, facet_col_wrap) ==
    LET n_cols == Min(facet_col_wrap, n_facets)
        n_rows == (n_facets + n_cols - 1) \div n_cols
    IN [k \in 1..(n_rows * n_cols) |-> [title_text |-> None]]

\* Lines 190-191: the titles from position i on are written to their y-axes.
RECURSIVE UpdateTitles(_, _, _, _)
UpdateTitles(yaxes, yaxis_titles, i, facet_col_wrap) ==
    IF i >= Len(yaxis_titles) THEN yaxes
    ELSE LET at == get_yaxis(Len(yaxes), i, facet_col_wrap).position + 1
         IN UpdateTitles([yaxes EXCEPT ![at].title_text = yaxis_titles[i + 1]],
                         yaxis_titles, i + 1, facet_col_wrap)

\* Lines 154-194: the figure of one page selection d.
Plot(d, shock_label) ==
    LET facets == Unique(Column(d, "variable_label"))
        dash == line_dash(Len(gdx_folders_info))
        yaxis_titles == [j \in 1..Len(FirstOperators(d)) |->
                            yaxis_title_from_operator[FirstOperators(d)[j]]]
    IN [title |-> (IF DA THEN "<b>Stoed til " ELSE "<b>Shock to ")
                      \o shock_label \o "</b>",
        shock_label |-> shock_label,
        facet_col_wrap |-> columns_pr_page,
        annotations |-> facets,
        line_dash |-> dash,
        traces |-> {[facet |-> d[k].variable_label,
                     color |-> d[k].variation_label,
                     dash |-> IF dash = None THEN None ELSE d[k][dash]] :
                       k \in 1..Len(d)},
        shock_names |-> Range(Column(d, "shock_name")),
        variable_indices |-> Unique(Column(d, "variable_index")),
        height_in_cm |-> height_in_cm,
        width_in_cm |-> width_in_cm,
        legend_entries |-> Len(variations_info),
        yaxes |-> UpdateTitles(select_yaxes(Len(facets), columns_pr_page),
                               yaxis_titles, 0, columns_pr_page)]

\* df.shock_label.unique()
PlotLabels == Unique(Column(df, "shock_label"))

\* Lines 152-198: one figure is built, kept and written.
Render ==
    /\ pc = "plot"
    /\ label_i <= Len(PlotLabels)
    /\ page_i <= Len(indices_by_page)
    /\ LET shock_label == PlotLabels[label_i]
           page_number == page_i
           selection == PageData(shock_label, indices_by_page[page_i])
           fig == Plot(selection, shock_label) @@ [page_number |-> page_number]
           name == figure_name(shock_label, page_number)
       IN /\ data' = selection
          /\ operators' = FirstOperators(selection)
          /\ figures' = DictSet(figures, name, fig)
          /\ images' = Append(images, output_folder \o "/" \o name \o output_extension)
    /\ page_i' = page_i + 1
    /\ UNCHANGED <<pc, configVars, variable_labels, get_variable_functions, buildVars,
                   console, multipliers, df, layoutVars, label_i, report_figures,
                   exportVars, error, chunkVars, yaxisVars>>

\* Line 152 exhausted: on to the next shock label.
NextLabel ==
    /\ pc = "plot"
    /\ label_i <= Len(PlotLabels)
    /\ page_i > Len(indices_by_page)
    /\ label_i' = label_i + 1
    /\ page_i' = 1
    /\ UNCHANGED <<pc, configVars, listVars, buildVars, data, console, multipliers, df,
                   layoutVars, figures, images, report_figures, exportVars, error,
                   chunkVars, yaxisVars>>

(***************************************************************************)
(* Lines 200-207: the reports                                              *)
(***************************************************************************)
\* Line 200: report_figures = list(figures.values())
CollectFigures ==
    /\ pc = "plot"
    /\ label_i > Len(PlotLabels)
    /\ report_figures' = DictValues(figures)
    /\ pc' = "export_html"
    /\ UNCHANGED <<configVars, listVars, buildVars, data, console, multipliers, df,
                   layoutVars, plotVars, exportVars, error, chunkVars, yaxisVars>>

\* Line 203: dt.figures_to_html(report_figures, ...)
ExportHtml ==
    /\ pc = "export_html"
    /\ html' = [path |-> output_folder \o "/" \o fname \o ".html",
                figures |-> report_figures]
    /\ pc' = "export_pdf"
    /\ UNCHANGED <<configVars, listVars, buildVars, data, console, multipliers, df,
                   layoutVars, plotVars, report_figures, pdf, error, chunkVars,
                   yaxisVars>>

\* Lines 206-207: figures_to_pdf(report_figures, ...)
ExportPdf ==
    /\ pc = "export_pdf"
    /\ pdf' = [path |-> output_folder \o "/" \o fname \o ".pdf",
               figures |-> report_figures]
    /\ pc' = "done"
    /\ UNCHANGED <<configVars, listVars, buildVars, data, console, multipliers, df,
                   layoutVars, plotVars, report_figures, html, error, chunkVars,
                   yaxisVars>>

Next ==
    \/ OpenBaseline
    \/ SkipShock
    \/ OverrideFirstPlot
    \/ NextFolder
    \/ OpenDatabase
    \/ NextShock
    \/ AppendRow
    \/ NextVariation
    \/ MakeDataFrame
    \/ ApplyRow
    \/ ApplyRaise
    \/ Melt
    \/ Paginate
    \/ PaginateEmpty
    \/ Render
    \/ NextLabel
    \/ CollectFigures
    \/ ExportHtml
    \/ ExportPdf

Spec == Init /\ [][Next]_vars


(***************************************************************************)
(* SpecChunks: the generator divide_chunks, one action per yield           *)
(***************************************************************************)
\* The script idle: a run that has not started, with one folder and one variable.
ScriptIdle == ScriptStart(1, 1, AllShockFiles(1))

ChunkElements == {"a", "b"}

InitChunks ==
    /\ pc = "divide_chunks"
    /\ ScriptIdle
    /\ YaxisIdle
    /\ chunk_l \in UNION {[1..m -> ChunkElements] : m \in 0..MaxLen}
    /\ chunk_n \in 1..MaxChunk
    /\ chunk_i = 0
    /\ chunk_out = <<>>

scriptVars == <<configVars, listVars, buildVars, data, console, multipliers, df,
                layoutVars, plotVars, report_figures, exportVars, error>>

\* Lines 134-135: the loop yields l[i:i + n] and steps i by n.
ChunkYield ==
    /\ pc = "divide_chunks"
    /\ chunk_i < Len(chunk_l)
    /\ chunk_out' = Append(chunk_out, Slice(chunk_l, chunk_i, chunk_i + chunk_n))
    /\ chunk_i' = chunk_i + chunk_n
    /\ UNCHANGED <<pc, scriptVars, chunk_l, chunk_n, yaxisVars>>

\* Line 134: range(0, len(l), n) is exhausted and the generator ends.
ChunkStop ==
    /\ pc = "divide_chunks"
    /\ chunk_i >= Len(chunk_l)
    /\ pc' = "chunks_done"
    /\ UNCHANGED <<scriptVars, chunkVars, yaxisVars>>

NextChunks ==
    \/ ChunkYield
    \/ ChunkStop

SpecChunks == InitChunks /\ [][NextChunks]_vars

(***************************************************************************)
(* SpecYaxis: get_yaxis on a figure with y_n y-axes                        *)
(***************************************************************************)
InitYaxis ==
    /\ pc = "get_yaxis"
    /\ ScriptIdle
    /\ ChunksIdle
    /\ y_n \in 1..MaxAxes
    /\ y_wrap \in 1..MaxWrap
    /\ y_i \in 0..(y_n - 1)
    /\ y_out = [raised |-> None, raw |-> 0, position |-> 0]

\* Line 146: the y-axis is returned.
YaxisReturn ==
    /\ pc = "get_yaxis"
    /\ get_yaxis(y_n, y_i, y_wrap).raised = None
    /\ y_out' = get_yaxis(y_n, y_i, y_wrap)
    /\ pc' = "yaxis_done"
    /\ UNCHANGED <<scriptVars, chunkVars, y_n, y_wrap, y_i>>

\* Line 146: idx[i] or yaxes[...] raises IndexError.
YaxisRaise ==
    /\ pc = "get_yaxis"
    /\ get_yaxis(y_n, y_i, y_wrap).raised # None
    /\ y_out' = get_yaxis(y_n, y_i, y_wrap)
    /\ pc' = "yaxis_done"
    /\ UNCHANGED <<scriptVars, chunkVars, y_n, y_wrap, y_i>>

NextYaxis ==
    \/ YaxisReturn
    \/ YaxisRaise

SpecYaxis == InitYaxis /\ [][NextYaxis]_vars


(***************************************************************************)
(* Properties                                                              *)
(***************************************************************************)
Shocks == 1..Len(shock_names)
Folders == 1..Len(gdx_folders_info)
Variations == 1..Len(variations_info)

\* The path of the result file of folder f, shock s and variation k.
ResultFile(f, s, k) ==
    gdx_folders_info[f][1] \o "\\" \o shock_names[s] \o variations_info[k][1] \o ".gdx"

\* Some result file of shock s is absent / every one is present.
SomeFileAbsent(s) == \E f \in Folders, k \in Variations : ResultFile(f, s, k) \notin files
AllFilesPresent(s) == \A f \in Folders, k \in Variations : ResultFile(f, s, k) \in files

\* data still is the combination table: no page selection has replaced it.
IsTable == images = <<>>

\* The table-building loop has finished.
TableBuilt == pc \notin {"folder_loop", "shock_loop", "suffix_loop", "variable_loop"}

\* The figures a report file holds that show shock s.
FiguresOf(figs, s) ==
    {k \in 1..Len(figs) : \/ figs[k].shock_label = shock_labels[s]
                          \/ shock_names[s] \in figs[k].shock_names}

\* C1: a shock with a result file absent in some folder for some variation has
\* no row in the table in any folder, no figure, no image and no place in either
\* report; the skip is announced once per folder, raises nothing, and every
\* shock with all files present still gets its rows in every folder.
C1_IncompleteShockSkipped ==
    \A s \in Shocks : SomeFileAbsent(s) =>
        /\ \A k \in 1..Len(data) : data[k].shock_name # shock_names[s]
        /\ \A k \in 1..Len(df) : df[k].shock_name # shock_names[s]
        /\ FiguresOf(DictValues(figures), s) = {}
        /\ \A p \in 1..(Len(indices_by_page) + 1) :
              (output_folder \o "/" \o shock_labels[s] \o " " \o ToString(p)
                  \o output_extension) \notin Range(images)
        /\ FiguresOf(html.figures, s) = {}
        /\ FiguresOf(pdf.figures, s) = {}
        /\ error.exception \in {None, "get_multiplier", "AttributeError"}
        /\ (TableBuilt /\ IsTable) =>
              /\ Cardinality({k \in 1..Len(console) : console[k] = shock_names[s]})
                    = Len(gdx_folders_info)
              /\ \A s2 \in Shocks : AllFilesPresent(s2) =>
                    \A f \in Folders :
                        \E k \in 1..Len(data) :
                            /\ data[k].shock_name = shock_names[s2]
                            /\ data[k].folder = gdx_folders_info[f][1]

\* A finished run in which one shock lacks a file in one folder only, and the
\* other shock was plotted.
C1_Witness ==
    /\ pc = "done"
    /\ \E s \in Shocks, s2 \in Shocks :
        /\ SomeFileAbsent(s)
        /\ \E f \in Folders : \A k \in Variations : ResultFile(f, s, k) \in files
        /\ AllFilesPresent(s2)
        /\ FiguresOf(html.figures, s2) # {}

\* The pages divide_chunks gives for the variable indices of df.
ExpectedPages ==
    Len(divide_chunks(Unique(Column(df, "variable_index")),
                      columns_pr_page * rows_pr_page))

\* C2: at the end of the run a shock with all files present has as many figures
\* as divide_chunks yields chunks for the variable-index list with chunk size
\* columns_pr_page * rows_pr_page, with page numbers 1..(chunks), each once.
C2_FiguresPerShock ==
    pc = "done" =>
        \A s \in Shocks : AllFilesPresent(s) =>
            LET figs == DictValues(figures)
                mine == {k \in 1..Len(figs) : figs[k].shock_label = shock_labels[s]}
                capacity == columns_pr_page * rows_pr_page
            IN /\ Cardinality(mine) = ExpectedPages
               /\ ExpectedPages = (Len(variable_labels) + capacity - 1) \div capacity
               /\ \A k \in mine : shock_names[s] \in figs[k].shock_names
               /\ \A k \in mine : figs[k].page_number \in 1..ExpectedPages
               /\ \A p \in 1..ExpectedPages :
                     Cardinality({k \in mine : figs[k].page_number = p}) = 1

\* A finished run with a plotted shock on more than one page.
C2_Witness ==
    /\ pc = "done"
    /\ Len(indices_by_page) >= 2
    /\ \E s \in Shocks : AllFilesPresent(s) /\ FiguresOf(html.figures, s) # {}

\* C3: the chunks divide_chunks yields concatenate, in order, to the list; every
\* chunk but the last has n elements, the last has 1..n, an empty list yields none.
C3_ChunksPartition ==
    /\ Flatten(chunk_out) = SubSeq(chunk_l, 1, Min(chunk_i, Len(chunk_l)))
    /\ pc = "chunks_done" =>
        /\ Flatten(chunk_out) = chunk_l
        /\ \A k \in 1..(Len(chunk_out) - 1) : Len(chunk_out[k]) = chunk_n
        /\ chunk_out # <<>> => Len(chunk_out[Len(chunk_out)]) \in 1..chunk_n
        /\ chunk_l = <<>> => chunk_out = <<>>
        /\ chunk_out = divide_chunks(chunk_l, chunk_n)

\* The generator has ended after several chunks, the last one short.
C3_Witness ==
    /\ pc = "chunks_done"
    /\ Len(chunk_out) >= 2
    /\ Len(chunk_out[Len(chunk_out)]) < chunk_n

\* The position of a shock name in shock_names.
ShockIndex(name) == CHOOSE s \in Shocks : shock_names[s] = name

\* C4: in the combination table a row with variable_index 0 carries its own
\* shock's specific (label, getter, operator); a row with variable_index k > 0
\* carries the configured generic entry k.
C4_OverrideOnlyFirst ==
    IsTable =>
        \A k \in 1..Len(data) :
            LET row == data[k]
                specific == shock_specific_plot_info[ShockIndex(row.shock_name)]
            IN IF row.variable_index = 0
               THEN /\ row.variable_label = specific[IF DA THEN 1 ELSE 2]
                    /\ row.getter = specific[3]
                    /\ row.operator = specific[4]
               ELSE /\ row.variable_label = GenericLabel(row.variable_index)
                    /\ row.getter = GenericGetter(row.variable_index)
                    /\ row.operator = GenericOperator(row.variable_index)

\* The table holds, for the last folder, first rows of two different shocks
\* (the second built after the first one's override) and a later row.
C4_Witness ==
    /\ IsTable
    /\ Len(gdx_folders_info) > 1
    /\ \E a \in 1..Len(data), b \in 1..Len(data), c \in 1..Len(data) :
        /\ a < b
        /\ data[a].folder = gdx_folders_info[Len(gdx_folders_info)][1]
        /\ data[b].folder = data[a].folder
        /\ data[a].variable_index = 0
        /\ data[b].variable_index = 0
        /\ data[a].shock_name # data[b].shock_name
        /\ data[c].variable_index > 0

\* C5: every row's baseline was opened from baseline.gdx of the folder its own
\* database was opened from, and get_multiplier compares the row's database with
\* the row's baseline and no other.
C5_BaselineOfSameFolder ==
    /\ IsTable =>
        /\ \A k \in 1..Len(data) :
            /\ data[k].baseline = <<[path |-> data[k].folder \o "\\baseline.gdx"]>>
            /\ data[k].database =
                  <<[path |-> data[k].folder \o "\\" \o data[k].shock_name
                                  \o data[k].variation \o ".gdx"]>>
        /\ \A k \in 1..Len(multipliers) :
            /\ multipliers[k].databases = data[k].database
            /\ multipliers[k].baselines = data[k].baseline
    /\ \A k \in 1..Len(df) :
        /\ df[k].value.series.databases = df[k].database
        /\ df[k].value.series.baselines =
              <<[path |-> df[k].folder \o "\\baseline.gdx"]>>
        /\ df[k].database =
              <<[path |-> df[k].folder \o "\\" \o df[k].shock_name
                              \o df[k].variation \o ".gdx"]>>

\* A multiplier was fetched for a row of the second folder.
C5_Witness ==
    /\ Len(gdx_folders_info) > 1
    /\ \E k \in 1..Len(df) : df[k].folder = gdx_folders_info[2][1]


\* The image file a figure of the report was written to when it was generated.
ImageOf(fig) ==
    output_folder \o "/" \o fig.shock_label \o " " \o ToString(fig.page_number)
        \o output_extension

\* C6: at the end of a run that did not fail the HTML export and the PDF export
\* were handed the same list, which holds one entry per figure the plot loop
\* generated, one per (shock label, page number), in the order of generation.
C6_ReportInGenerationOrder ==
    pc = "done" =>
        /\ html.figures = pdf.figures
        /\ html.path # pdf.path
        /\ Len(html.figures) = Len(images)
        /\ Len(html.figures) = Len(PlotLabels) * Len(indices_by_page)
        /\ \A k \in 1..Len(html.figures) : images[k] = ImageOf(html.figures[k])
        /\ \A j \in 1..Len(html.figures), k \in 1..Len(html.figures) :
              j # k => \/ html.figures[j].shock_label # html.figures[k].shock_label
                       \/ html.figures[j].page_number # html.figures[k].page_number

\* A finished run whose report holds figures of two shocks on several pages.
C6_Witness ==
    /\ pc = "done"
    /\ Len(html.figures) >= 4
    /\ Len(PlotLabels) = 2

\* C7: a figure has the folder label as line-dash channel exactly when more than
\* one folder is configured: then its traces are told apart by folder label,
\* with one folder no trace of any figure has a dash.
C7_DashIffSeveralFolders ==
    \A k \in 1..Len(figures) :
        LET fig == figures[k][2]
        IN /\ fig.line_dash = "folder_label" <=> Len(gdx_folders_info) > 1
           /\ fig.line_dash \in {"folder_label", None}
           /\ Len(gdx_folders_info) > 1 =>
                 {tr.dash : tr \in fig.traces} = Range(gdx_labels)
           /\ Len(gdx_folders_info) = 1 =>
                 {tr.dash : tr \in fig.traces} = {None}

\* A figure rendered with two folders configured, dashed by the two labels.
C7_Witness ==
    /\ Len(gdx_folders_info) = 2
    /\ \E k \in 1..Len(figures) :
          Cardinality({tr.dash : tr \in figures[k][2].traces}) = 2

\* C8: when the table-building loop has finished the table has (folders) x
\* (surviving shocks) x (variations) x (variables) rows, and every (folder,
\* surviving shock, variation, variable index) is in exactly one row.
C8_RowCount ==
    (TableBuilt /\ IsTable) =>
        LET surviving == {s \in Shocks : AllFilesPresent(s)}
            n_variables == Len(variable_labels)
        IN /\ Len(data) = Len(gdx_folders_info) * Cardinality(surviving)
                              * Len(variations_info) * n_variables
           /\ \A f \in Folders, s \in surviving, v \in Variations,
                 i \in 0..(n_variables - 1) :
                 Cardinality({k \in 1..Len(data) :
                                 /\ data[k].folder = gdx_folders_info[f][1]
                                 /\ data[k].shock_name = shock_names[s]
                                 /\ data[k].variation = variations_info[v][1]
                                 /\ data[k].variable_index = i}) = 1

\* The loop has finished with two folders, the first shock skipped and the
\* second one in the table.
C8_Witness ==
    /\ pc = "apply"
    /\ Len(gdx_folders_info) = 2
    /\ SomeFileAbsent(1)
    /\ AllFilesPresent(2)
    /\ Len(data) >= 4

\* C9: once get_multiplier has failed for a row the run is aborted: the row was
\* not passed over (no series exists for it or for a later row), no image and no
\* report was written; and an image is written only after every row's series
\* was fetched.
C9_ExtractionFailureAborts ==
    /\ error.exception = "get_multiplier" =>
        /\ pc = "aborted"
        /\ Len(multipliers) = error.row - 1
        /\ Len(multipliers) < Len(data)
        /\ df = <<>>
        /\ figures = <<>>
        /\ images = <<>>
        /\ html = NotWritten
        /\ pdf = NotWritten
    /\ images # <<>> =>
        /\ error = NoError
        /\ Len(df) = Len(multipliers) * Len(Years)

\* get_multiplier failed on a later row, after series of earlier rows were fetched.
C9_Witness ==
    /\ pc = "aborted"
    /\ error.exception = "get_multiplier"
    /\ error.row >= 3

\* The index the claim names for facet position i of a figure with n y-axes.
ClaimedIndex(n, i, facet_col_wrap) ==
    LET n_cols == Min(facet_col_wrap, n)
        r == i \div n_cols
        c == i % n_cols
    IN n - ((1 + r) * n_cols - c)

\* What the claim says of the call get_yaxis(fig, y_i, y_wrap) that has ended.
YaxisAsClaimed ==
    /\ y_out.raised = None
    /\ y_out.raw \in 0..(y_n - 1)
    /\ y_out.raw = ClaimedIndex(y_n, y_i, y_wrap)
    /\ y_out.position = y_out.raw
    /\ \A j \in 0..(y_n - 1) :
          (j # y_i /\ get_yaxis(y_n, j, y_wrap).raised = None)
              => get_yaxis(y_n, j, y_wrap).position # y_out.position

\* C10 as stated: for every n >= 1, every facet_col_wrap >= 1 and every i in
\* 0..n-1 get_yaxis selects index n - ((1 + r) * n_cols - c) in 0..n-1, without
\* failing, and distinct positions select distinct axes.
C10_AsStated == pc = "yaxis_done" => YaxisAsClaimed

\* C10 amended: the same, for every n that is a multiple of
\* n_cols = min(facet_col_wrap, n), that is, for a full grid of facets.
C10_FullGrid ==
    (pc = "yaxis_done" /\ y_n % Min(y_wrap, y_n) = 0) => YaxisAsClaimed

\* get_yaxis has returned for a position in the second row of a 2 x 3 grid.
C10_Witness ==
    /\ pc = "yaxis_done"
    /\ y_n = 6
    /\ y_wrap = 3
    /\ y_i = 4
    /\ y_out.raised = None

=============================================================================
